---- MODULE Spec2Model ----
(***************************************************************************)
(* plot_locfin_posterior_hmc.py: roll out a trained design policy for one  *)
(* true theta, sample the posterior at the checkpoints T_to_plot, extract  *)
(* a density grid and its MAP per checkpoint, and decode the MAPs and the  *)
(* true theta into one tiled figure.                                       *)
(*                                                                         *)
(* Real coordinates are kept exact as integers: limits and samples are in  *)
(* tenths, and a coordinate of the grid is kept as a numerator over the    *)
(* common denominator Den(bin) = bin - 1 of np.mgrid's spacing.            *)
(***************************************************************************)
EXTENDS Integers, Sequences, FiniteSets, TLC

(* ------------------------------ bounds --------------------------------- *)
MaxT == 6
MaxStep == 2
MaxBin == 3
MaxP == 3
NumSeeds == 1
NumSamples == 2
KernelWidth == 20
MaxEmb == 9

(* --------------------------- program constants -------------------------- *)
ncol == 4
DefaultTStep == 10
\* limits = (-1.5, 1.5), in tenths
HardLimits == <<-15, 15>>
\* the checkpoint list [0,10,20,30] of the default run
ExampleT == 3 * DefaultTStep
None == 0 - 1

VARIABLES
    args,            \* parsed command line: T_to_plot, T_step, bin, limits, seed
    ho_model,        \* the loaded policy model: its horizon T and dimension p
    loaded_T,        \* history: the horizon the model had when it was loaded
    temp,            \* the script's temp variable
    limits,          \* bounding box of the density grid
    T_to_plot,       \* checkpoint list
    trajectory,      \* [designs, observations] returned by run_policy
    run_policy_calls,\* history: number of run_policy calls so far
    run_df,          \* the recorded run: its "order" column
    k,               \* number of checkpoints the for loop has entered
    data_dict,       \* conditioning data of the current checkpoint
    sampled_T,       \* history: horizon in force at each mcmc.run
    map_list,
    f_list,
    files,           \* files present in the output directory
    pc,
    \* plot_vae_decode's frame
    T_list,
    embedding_list,
    nrow,
    axs_ndim,        \* dimensionality of the axs array plt.subplots returned
    i,               \* embeddings the for loop has finished
    tmp_bound,       \* tmp_img_dir has been assigned
    images,          \* <<row, col, index>> of every imshow
    titles,          \* <<row, col, caption>> of every set_title
    removed,         \* cells removed from the figure
    saved            \* indexes of the embeddings visible in the saved figure

mainVars == <<args, ho_model, loaded_T, temp, limits, T_to_plot, trajectory,
              run_policy_calls, run_df, k, data_dict, sampled_T, map_list, f_list>>
decVars == <<T_list, embedding_list, nrow, axs_ndim, i, tmp_bound, images,
             titles, removed, saved>>
vars == <<mainVars, decVars, files, pc>>

(* ------------------------------ helpers -------------------------------- *)
RECURSIVE Pow(_, _)
Pow(b, e) == IF e = 0 THEN 1 ELSE b * Pow(b, e - 1)

Abs(x) == IF x < 0 THEN -x ELSE x

Max0(x) == IF x < 0 THEN 0 ELSE x

RECURSIVE SumSeq(_)
SumSeq(s) == IF s = <<>> THEN 0 ELSE Head(s) + SumSeq(Tail(s))

RECURSIVE ProdSeq(_)
ProdSeq(s) == IF s = <<>> THEN 1 ELSE Head(s) * ProdSeq(Tail(s))

\* Python's range(start, stop, step) for step > 0, as a list
RECURSIVE Range(_, _, _)
Range(start, stop, step) ==
    IF start >= stop THEN <<>> ELSE <<start>> \o Range(start + step, stop, step)

Last(s) == s[Len(s)]

(* --------------------------- checkpoint list ---------------------------- *)
TToPlotPastEnd(Tmax, step) == Range(0, Tmax + 2, step)

\* [i for i in range(0, Tmax+1, T_step)]
TToPlot(Tmax, step) == Range(0, Tmax + 1, step)

(* ------------------------------ the grid -------------------------------- *)
\* common denominator of the bin points np.mgrid lays between the limits
Den(bin) == IF bin = 1 THEN 1 ELSE bin - 1

GridNumOffByOne(idx, lim, bin) == lim[1] * Den(bin) + (idx + 1) * (lim[2] - lim[1])

\* slice(limits[0], limits[1], bin*1j): point idx of bin points, both ends included
GridNum(idx, lim, bin) == lim[1] * Den(bin) + idx * (lim[2] - lim[1])

\* index along dimension d (1..p) of the flat, row-major index kflat (0-based)
CoordIdx(kflat, d, bin, p) == (kflat \div Pow(bin, p - d)) % bin

GridShapeTwoDim(bin, p) == [d \in 1..2 |-> bin]

\* grid[0].shape
GridShape(bin, p) == [d \in 1..p |-> bin]

\* positions = np.vstack([grid[i].ravel() ...]); Positions(..)[n] is column n-1
Positions(lim, bin, p) ==
    [n \in 1..Pow(bin, p) |-> [d \in 1..p |-> GridNum(CoordIdx(n - 1, d, bin, p), lim, bin)]]

(* ------------------------- sampler and density -------------------------- *)
\* sample coordinates in tenths; the outer two lie outside the bounding box
SampleVals == <<-30, -5, 5, 30>>

\* mcmc.get_samples()['theta'] after auto_seed(seed), conditioned on T pairs:
\* a list of NumSamples points of dimension p
Sampler(seed, T, p) ==
    [j \in 1..NumSamples |->
        [d \in 1..p |-> SampleVals[((seed + T + j * d) % Len(SampleVals)) + 1]]]

\* one kernel factor: non-negative, decreasing in the distance
Kern(num, s, den) == Max0(KernelWidth * den - Abs(num - s * den))

\* kernel = st.gaussian_kde(values); pdf = kernel(positions)
Kde(values, positions, den) ==
    [n \in DOMAIN positions |->
        SumSeq([j \in DOMAIN values |->
            ProdSeq([d \in DOMAIN positions[n] |->
                Kern(positions[n][d], values[j][d], den)])])]

\* pdf.argmax(): the first index of the maximum (1-based here)
ArgMax(pdf) ==
    CHOOSE n \in DOMAIN pdf :
        /\ \A m \in DOMAIN pdf : pdf[m] <= pdf[n]
        /\ \A m \in DOMAIN pdf : m < n => pdf[m] < pdf[n]

\* positions[:, pdf.argmax()]
MapPoint(positions, pdf) == positions[ArgMax(pdf)]

\* f = np.reshape(pdf.T, grid[0].shape)
Reshape(pdf, shape) == [shape |-> shape, data |-> pdf]

(* ------------------------------ the policy ------------------------------ *)
\* the true theta [[0.5]*p], in tenths
ThetaTrue(p) == [d \in 1..p |-> 5]

\* values the seeded rollout produces at step t (1-based)
DesignAt(seed, t) == seed * 100 + t
ObsAt(seed, t) == (seed + t * t) % 5

\* the nodes of pyro.poutine.trace(model).get_trace() for a model of horizon T:
\* the plate, the latent, then one design and one observation per step
RECURSIVE StepNodes(_, _, _)
StepNodes(seed, t, T) ==
    IF t > T THEN <<>>
    ELSE << [subtype |-> "design_sample", value |-> DesignAt(seed, t)],
            [subtype |-> "observation_sample", value |-> ObsAt(seed, t)] >>
         \o StepNodes(seed, t + 1, T)

ModelTrace(model, seed) ==
    << [subtype |-> "none", value |-> 0],
       [subtype |-> "latent_sample", value |-> 0] >> \o StepNodes(seed, 1, model.T)

IsDesign(node) == node.subtype = "design_sample"
IsObservation(node) == node.subtype = "observation_sample"
IsLatent(node) == node.subtype = "latent_sample"
IsDesignOrLatent(node) == IsDesign(node) \/ IsLatent(node)

Values(nodes) == [n \in DOMAIN nodes |-> nodes[n].value]

run_policy_LatentsAsDesigns(trace) ==
    [designs      |-> Values(SelectSeq(trace, IsDesignOrLatent)),
     observations |-> Values(SelectSeq(trace, IsObservation)),
     latents      |-> Values(SelectSeq(trace, IsLatent))]

\* run_policy: the values of the trace's nodes, by subtype, in trace order
run_policy(trace) ==
    [designs      |-> Values(SelectSeq(trace, IsDesign)),
     observations |-> Values(SelectSeq(trace, IsObservation)),
     latents      |-> Values(SelectSeq(trace, IsLatent))]

(* ------------------------- the script's helpers ------------------------- *)
SwapT_TempAfterStore(model, T) == [temp |-> T, model |-> [model EXCEPT !.T = T]]

\* temp, ho_model.T = ho_model.T, T
SwapT(model, T) == [temp |-> model.T, model |-> [model EXCEPT !.T = T]]

\* limits = tuple(float(x) for x in args.limits); limits = (-1.5, 1.5)
LimitsInForce(parsed) == HardLimits

DataKeys(T) == {<<"xi", t>> : t \in 1..T} \cup {<<"y", t>> : t \in 1..T}

BuildDataDictZeroBased(designs, observations, T) ==
    [key \in {<<"xi", t - 1>> : t \in 1..T} \cup {<<"y", t - 1>> : t \in 1..T} |->
        IF key[1] = "xi" THEN designs[key[2] + 1] ELSE observations[key[2] + 1]]

\* data_dict = {}; for t in range(T): data_dict[f'xi{t+1}'], data_dict[f'y{t+1}']
BuildDataDict(designs, observations, T) ==
    [key \in DataKeys(T) |->
        IF key[1] = "xi" THEN designs[key[2]] ELSE observations[key[2]]]

EmptyDict == [key \in {} |-> 0]

\* files written to the output directory
TargetPng == <<"target_0.png", 0>>
ReconPng(t) == <<"target_0_recon.png", t>>
TempPng == <<"temp.png", 0>>
MapProgressPng == <<"MAP_progress.png", 0>>
PosteriorProgressPng == <<"2dim_progress.png", 0>>

\* the file plot_posterior_grid saves
plot_posterior_grid(fs) == fs \cup {PosteriorProgressPng}

(* -------------------------------- Init ---------------------------------- *)
HorizonChoices == {1, MaxT, ExampleT}
StepChoices == (1..MaxStep) \cup {DefaultTStep}
LimitChoices == {HardLimits, <<-20, 20>>}

DecInit ==
    /\ T_list = <<>>
    /\ embedding_list = <<>>
    /\ nrow = 0
    /\ axs_ndim = 0
    /\ i = 0
    /\ tmp_bound = FALSE
    /\ images = {}
    /\ titles = {}
    /\ removed = {}
    /\ saved = {}

Init ==
    /\ args \in [T_to_plot : {None} \cup (0..MaxT), T_step : StepChoices,
                 bin : 1..MaxBin, limits : LimitChoices, seed : 1..NumSeeds]
    /\ ho_model \in [T : HorizonChoices, p : 2..MaxP]
    /\ loaded_T = ho_model.T
    /\ temp = 0
    /\ limits = args.limits
    /\ T_to_plot = <<>>
    /\ trajectory = [designs |-> <<>>, observations |-> <<>>]
    /\ run_policy_calls = 0
    /\ run_df = [xis |-> <<>>, ys |-> <<>>, order |-> <<>>]
    /\ k = 0
    /\ data_dict = EmptyDict
    /\ sampled_T = <<>>
    /\ map_list = <<>>
    /\ f_list = <<>>
    /\ files = {}
    /\ pc = "setup"
    /\ DecInit

(* --------------------------- the main script ---------------------------- *)
\* lines 212-228
Setup ==
    /\ pc = "setup"
    /\ map_list' = <<>>
    /\ f_list' = <<>>
    /\ limits' = LimitsInForce(args.limits)
    /\ T_to_plot' = IF args.T_to_plot = None
                    THEN TToPlot(ho_model.T, args.T_step)
                    ELSE TToPlot(args.T_to_plot, args.T_step)
    /\ pc' = "rollout"
    /\ UNCHANGED <<args, ho_model, loaded_T, temp, trajectory, run_policy_calls,
                   run_df, k, data_dict, sampled_T, files, decVars>>

\* lines 232-233
RolloutRun ==
    /\ pc = "rollout"
    /\ LET sw == SwapT(ho_model, Last(T_to_plot))
           r  == run_policy(ModelTrace(sw.model, args.seed))
       IN /\ temp' = sw.temp
          /\ ho_model' = sw.model
          /\ trajectory' = [designs |-> r.designs, observations |-> r.observations]
    /\ run_policy_calls' = run_policy_calls + 1
    /\ pc' = "record"
    /\ UNCHANGED <<args, loaded_T, limits, T_to_plot, run_df, k, data_dict,
                   sampled_T, map_list, f_list, files, decVars>>

\* lines 234-261
RolloutRecord ==
    /\ pc = "record"
    /\ LET T == ho_model.T
           short == Len(trajectory.designs) < T \/ Len(trajectory.observations) < T
           read == IF short THEN 0 ELSE T
       IN /\ files' = files \cup {TargetPng}
                            \cup {ReconPng(t) : t \in {u \in 0..(read - 1) : u % 5 = 0}}
          /\ IF short
             THEN \* designs[t]: list index out of range
                  /\ pc' = "raised_IndexError"
                  /\ UNCHANGED <<run_df, ho_model>>
             ELSE IF T = 0
             THEN \* torch.stack of an empty list
                  /\ pc' = "raised_RuntimeError"
                  /\ UNCHANGED <<run_df, ho_model>>
             ELSE /\ run_df' = [xis |-> [t \in 1..T |-> trajectory.designs[t]],
                                ys |-> [t \in 1..T |-> trajectory.observations[t]],
                                order |-> Range(1, T + 1, 1)]
                  /\ ho_model' = [ho_model EXCEPT !.T = temp]
                  /\ pc' = "loop"
    /\ UNCHANGED <<args, loaded_T, temp, limits, T_to_plot, trajectory,
                   run_policy_calls, k, data_dict, sampled_T, map_list, f_list, decVars>>

\* lines 263-268
CheckpointBegin ==
    /\ pc = "loop"
    /\ k < Len(T_to_plot)
    /\ k' = k + 1
    /\ LET sw == SwapT(ho_model, T_to_plot[k + 1])
       IN /\ temp' = sw.temp
          /\ ho_model' = sw.model
          /\ IF sw.model.T > Len(trajectory.designs)
                \/ sw.model.T > Len(trajectory.observations)
             THEN /\ pc' = "raised_IndexError"
                  /\ data_dict' = EmptyDict
             ELSE /\ pc' = "sample"
                  /\ data_dict' = BuildDataDict(trajectory.designs,
                                                trajectory.observations, sw.model.T)
    /\ UNCHANGED <<args, loaded_T, limits, T_to_plot, trajectory, run_policy_calls,
                   run_df, sampled_T, map_list, f_list, files, decVars>>

\* lines 269-291
CheckpointSample ==
    /\ pc = "sample"
    /\ LET p == ho_model.p
           values == Sampler(args.seed, ho_model.T, p)
           positions == Positions(limits, args.bin, p)
           pdf == Kde(values, positions, Den(args.bin))
       IN /\ map_list' = Append(map_list, MapPoint(positions, pdf))
          /\ f_list' = Append(f_list, Reshape(pdf, GridShape(args.bin, p)))
    /\ sampled_T' = Append(sampled_T, ho_model.T)
    /\ ho_model' = [ho_model EXCEPT !.T = temp]
    /\ pc' = "loop"
    /\ UNCHANGED <<args, loaded_T, temp, limits, T_to_plot, trajectory,
                   run_policy_calls, run_df, k, data_dict, files, decVars>>

\* line 293: the call, with map_list + [true_theta for true_theta in theta]
PlotVaeDecodeCall ==
    /\ pc = "loop"
    /\ k = Len(T_to_plot)
    /\ T_list' = T_to_plot
    /\ embedding_list' =
           Append(map_list, [d \in 1..ho_model.p |-> ThetaTrue(ho_model.p)[d] * Den(args.bin)])
    /\ pc' = "dec_enter"
    /\ UNCHANGED <<mainVars, files, nrow, axs_ndim, i, tmp_bound, images, titles,
                   removed, saved>>

(* --------------------------- plot_vae_decode ---------------------------- *)
RECURSIVE SumSq(_, _)
SumSq(a, b) ==
    IF a = <<>> THEN 0
    ELSE (Head(a) - Head(b)) * (Head(a) - Head(b)) + SumSq(Tail(a), Tail(b))

\* (embedding - embedding_list[-1]).norm(p=2), squared
DistSq(embedding, final) == SumSq(embedding, final)

\* plt.subplots(nrow, ncol) squeezes: one row of several columns is a 1-D array
SubplotsNdim(rows, cols) == IF rows = 1 \/ cols = 1 THEN 1 ELSE 2

\* axs[-1, len(embedding_list) % ncol:]
LastRowTail(rows, n) == {<<rows - 1, c>> : c \in (n % ncol)..(ncol - 1)}

\* lines 128-130
DecodeEnter ==
    /\ pc = "dec_enter"
    /\ nrow' = (Len(T_list) \div ncol) + 1
    /\ axs_ndim' = SubplotsNdim(nrow', ncol)
    /\ i' = 0
    /\ tmp_bound' = FALSE
    /\ images' = {}
    /\ titles' = {}
    /\ removed' = {}
    /\ saved' = {}
    /\ pc' = "dec_loop"
    /\ UNCHANGED <<mainVars, files, T_list, embedding_list>>

\* lines 131-142: one iteration of the loop over embedding_list
DecodeEmbedding ==
    /\ pc = "dec_loop"
    /\ i < Len(embedding_list)
    /\ LET row == i \div ncol
           col == i % ncol
           embedding == embedding_list[i + 1]
       IN /\ tmp_bound' = TRUE
          /\ files' = files \cup {TempPng}
          /\ IF axs_ndim # 2 \/ row >= nrow
             THEN \* axs[row, col]: too many indices, or index out of bounds
                  /\ pc' = "raised_IndexError"
                  /\ UNCHANGED <<images, titles, i>>
             ELSE /\ images' = images \cup {<<row, col, i>>}
                  /\ titles' = titles \cup
                        {IF i < Len(T_list)
                         THEN <<row, col, "Experiment", T_list[i + 1],
                                DistSq(embedding, Last(embedding_list))>>
                         ELSE <<row, col, "Target", None, 0>>}
                  /\ i' = i + 1
                  /\ pc' = "dec_loop"
    /\ UNCHANGED <<mainVars, T_list, embedding_list, nrow, axs_ndim, removed, saved>>

\* lines 143-146
DecodeHideAxes ==
    /\ pc = "dec_loop"
    /\ i = Len(embedding_list)
    /\ pc' = IF axs_ndim # 2 THEN "raised_IndexError" ELSE "dec_remove"
    /\ UNCHANGED <<mainVars, decVars, files>>

\* lines 147-148
DecodeRemoveCells ==
    /\ pc = "dec_remove"
    /\ removed' = LastRowTail(nrow, Len(embedding_list))
    /\ pc' = "dec_unlink"
    /\ UNCHANGED <<mainVars, files, T_list, embedding_list, nrow, axs_ndim, i,
                   tmp_bound, images, titles, saved>>

\* line 149
DecodeOsRemove ==
    /\ pc = "dec_unlink"
    /\ IF tmp_bound
       THEN /\ files' = files \ {TempPng}
            /\ pc' = "dec_save"
       ELSE \* tmp_img_dir referenced before assignment
            /\ pc' = "raised_UnboundLocalError"
            /\ UNCHANGED files
    /\ UNCHANGED <<mainVars, decVars>>

\* lines 150-151
DecodeSaveFig ==
    /\ pc = "dec_save"
    /\ saved' = {im[3] : im \in {x \in images : <<x[1], x[2]>> \notin removed}}
    /\ files' = files \cup {MapProgressPng}
    /\ pc' = "dec_returned"
    /\ UNCHANGED <<mainVars, T_list, embedding_list, nrow, axs_ndim, i, tmp_bound,
                   images, titles, removed>>

Decode ==
    \/ DecodeEnter
    \/ DecodeEmbedding
    \/ DecodeHideAxes
    \/ DecodeRemoveCells
    \/ DecodeOsRemove
    \/ DecodeSaveFig

(* --------------------------- specifications ----------------------------- *)
Next ==
    \/ Setup
    \/ RolloutRun
    \/ RolloutRecord
    \/ CheckpointBegin
    \/ CheckpointSample
    \/ PlotVaeDecodeCall
    \/ Decode

\* the whole script
Spec == Init /\ [][Next]_vars

\* plot_vae_decode called on its own, with any T_list and embedding_list
InitDecode ==
    /\ args = [T_to_plot |-> None, T_step |-> 1, bin |-> 1, limits |-> HardLimits, seed |-> 1]
    /\ ho_model = [T |-> 1, p |-> 2]
    /\ loaded_T = 1
    /\ temp = 0
    /\ limits = HardLimits
    /\ T_to_plot = <<>>
    /\ trajectory = [designs |-> <<>>, observations |-> <<>>]
    /\ run_policy_calls = 0
    /\ run_df = [xis |-> <<>>, ys |-> <<>>, order |-> <<>>]
    /\ k = 0
    /\ data_dict = EmptyDict
    /\ sampled_T = <<>>
    /\ map_list = <<>>
    /\ f_list = <<>>
    /\ files = {}
    /\ pc = "dec_enter"
    /\ \E n \in 0..MaxEmb : T_list = Range(0, n, 1)
    /\ \E e \in 0..MaxEmb : embedding_list = [j \in 1..e |-> <<j, 0>>]
    /\ nrow = 0
    /\ axs_ndim = 0
    /\ i = 0
    /\ tmp_bound = FALSE
    /\ images = {}
    /\ titles = {}
    /\ removed = {}
    /\ saved = {}

SpecDecode == InitDecode /\ [][Decode]_vars

(* ------------------------------- claims --------------------------------- *)
\* the last checkpoint the command line and the loaded model ask for
Tmax == IF args.T_to_plot = None THEN loaded_T ELSE args.T_to_plot

\* the for loop over T_to_plot has finished
AfterLoop == (pc = "loop" /\ T_to_plot # <<>> /\ k = Len(T_to_plot)) \/ T_list # <<>>

ExampleCheckpoints == <<0, DefaultTStep, 2 * DefaultTStep, ExampleT>>

\* C1: once the checkpoint loop has finished, map_list and f_list each hold one
\* entry per checkpoint of range(0, Tmax+1, T_step), entry j made at checkpoint
\* (j-1)*T_step; the checkpoints [0,10,20,30] give 4 estimates and 4 grids.
C1_OneEntryPerCheckpoint ==
    AfterLoop =>
        /\ Len(T_to_plot) = (Tmax \div args.T_step) + 1
        /\ Len(map_list) = (Tmax \div args.T_step) + 1
        /\ Len(f_list) = (Tmax \div args.T_step) + 1
        /\ Len(sampled_T) = (Tmax \div args.T_step) + 1
        /\ \A j \in 1..Len(sampled_T) :
               sampled_T[j] = (j - 1) * args.T_step /\ T_to_plot[j] = sampled_T[j]
        /\ (T_to_plot = ExampleCheckpoints => Len(map_list) = 4 /\ Len(f_list) = 4)

C1_Witness ==
    /\ pc = "dec_returned"
    /\ T_to_plot = ExampleCheckpoints
    /\ Len(map_list) = 4

\* C2: run_policy is called once, before any sampling, and at every checkpoint T
\* the conditioning data holds exactly the keys xi1..xiT and y1..yT, bound to the
\* first T designs and observations of that one rollout.
C2_ConditionedOnPrefix ==
    /\ run_policy_calls <= 1
    /\ (pc = "sample" \/ sampled_T # <<>>) => run_policy_calls = 1
    /\ pc = "sample" =>
          LET T == T_to_plot[k]
          IN /\ T <= Len(trajectory.designs)
             /\ T <= Len(trajectory.observations)
             /\ DOMAIN data_dict = {<<"xi", t>> : t \in 1..T} \cup {<<"y", t>> : t \in 1..T}
             /\ \A t \in 1..T :
                    /\ data_dict[<<"xi", t>>] = trajectory.designs[t]
                    /\ data_dict[<<"y", t>>] = trajectory.observations[t]
                    /\ trajectory.designs[t] = DesignAt(args.seed, t)
                    /\ trajectory.observations[t] = ObsAt(args.seed, t)

C2_Witness ==
    /\ pc = "sample"
    /\ k >= 3
    /\ T_to_plot[k] >= 2
    /\ T_to_plot[k] < Len(trajectory.designs)

\* C3: run_policy returns exactly T designs and T observations, T the horizon in
\* force at the call (the last checkpoint), and the recorded run has one row per
\* step, ordered 1..T.
C3_RolloutLengths ==
    /\ pc = "record" =>
          /\ ho_model.T = Last(T_to_plot)
          /\ Len(trajectory.designs) = ho_model.T
          /\ Len(trajectory.observations) = ho_model.T
    /\ run_df.order # <<>> =>
          /\ run_df.order = [t \in 1..Last(T_to_plot) |-> t]
          /\ run_df.xis = trajectory.designs
          /\ run_df.ys = trajectory.observations

C3_Witness ==
    /\ pc = "loop"
    /\ Len(run_df.order) >= 3
    /\ Len(trajectory.designs) = Len(run_df.order)

\* C4: every MAP estimate is the grid position at the maximum of its checkpoint's
\* density, and each of its p coordinates lies in [limits[0], limits[1]].
C4_MapInsideBox ==
    \A j \in 1..Len(map_list) :
        /\ DOMAIN map_list[j] = 1..ho_model.p
        /\ \A d \in 1..ho_model.p :
               /\ limits[1] * Den(args.bin) <= map_list[j][d]
               /\ map_list[j][d] <= limits[2] * Den(args.bin)
        /\ \E n \in DOMAIN f_list[j].data :
               /\ Positions(limits, args.bin, ho_model.p)[n] = map_list[j]
               /\ \A m \in DOMAIN f_list[j].data : f_list[j].data[m] <= f_list[j].data[n]

C4_Witness ==
    /\ Len(map_list) >= 2
    /\ args.bin >= 3
    /\ map_list[1] # map_list[2]
    /\ \E j \in 1..NumSamples : \E d \in 1..ho_model.p :
           Sampler(args.seed, sampled_T[2], ho_model.p)[j][d] > limits[2]

\* C5: the bounding box of the density grid is the pair of limits given on the
\* command line.
C5_LimitsFromCommandLine == pc # "setup" => limits = args.limits

\* C6 as claimed: every density grid is non-negative and of shape bin x bin,
\* whatever the latent dimension p.
C6_GridIsBinByBin ==
    \A j \in 1..Len(f_list) :
        /\ \A n \in DOMAIN f_list[j].data : f_list[j].data[n] >= 0
        /\ f_list[j].shape = <<args.bin, args.bin>>

\* C6: every density grid is non-negative and has bin points along each of the p
\* latent dimensions, bin^p values in all; it is bin x bin exactly when p = 2.
C6_GridIsBinPerDimension ==
    \A j \in 1..Len(f_list) :
        /\ \A n \in DOMAIN f_list[j].data : f_list[j].data[n] >= 0
        /\ f_list[j].shape = [d \in 1..ho_model.p |-> args.bin]
        /\ Len(f_list[j].data) = Pow(args.bin, ho_model.p)
        /\ (f_list[j].shape = <<args.bin, args.bin>>) <=> (ho_model.p = 2)

C6_Witness ==
    /\ Len(f_list) >= 2
    /\ ho_model.p = 3
    /\ args.bin >= 2
    /\ \E n \in DOMAIN f_list[2].data : f_list[2].data[n] > 0
    /\ \E n \in DOMAIN f_list[2].data : f_list[2].data[n] = 0

\* C7: in a complete execution both figures are written: the contour plot of the
\* density grids and the decoded MAP estimates.
C7_BothRenderersRun ==
    pc = "dec_returned" =>
        /\ MapProgressPng \in files
        /\ plot_posterior_grid(files) = files

\* C8: whenever plot_vae_decode returns no temp.png is left, and the delete step
\* only ever runs on a temp.png the call has created.
C8_TempDeleted ==
    /\ pc = "dec_returned" => TempPng \notin files
    /\ pc = "dec_unlink" => tmp_bound /\ TempPng \in files

\* C9: called with n >= 1 checkpoints and n+1 embeddings, plot_vae_decode draws
\* embedding i on cell (i // 4, i % 4) of the nrow x 4 grid, removes exactly the
\* cells of the last row that hold no image, and saves all n+1 images.
C9_EveryEmbeddingTiled ==
    (T_list # <<>> /\ Len(embedding_list) = Len(T_list) + 1) =>
        /\ pc \notin {"raised_IndexError", "raised_UnboundLocalError"}
        /\ \A im \in images :
               /\ im[1] = im[3] \div ncol /\ im[2] = im[3] % ncol
               /\ im[1] < nrow
        /\ pc \in {"dec_unlink", "dec_save", "dec_returned"} =>
               removed = {<<nrow - 1, c>> : c \in 0..(ncol - 1)}
                            \ {<<im[1], im[2]>> : im \in images}
        /\ pc = "dec_returned" => saved = 0..Len(T_list)

\* C10: ho_model.T is the last checkpoint during the rollout and T during a
\* checkpoint's sampling, and is back at the loaded horizon at the start of every
\* checkpoint iteration and once the loop has ended.
C10_HorizonRestored ==
    /\ pc = "record" => ho_model.T = Last(T_to_plot)
    /\ pc = "sample" => ho_model.T = T_to_plot[k]
    /\ pc = "loop" => ho_model.T = loaded_T
    /\ AfterLoop => ho_model.T = loaded_T

C10_Witness ==
    /\ pc = "loop"
    /\ k >= 2
    /\ k = Len(T_to_plot)
    /\ loaded_T # Last(T_to_plot)
    /\ ho_model.T = loaded_T

====
